---- MODULE Spec2Model ----
(***************************************************************************)
(* Pipeline-run list views of konflux-ui: the commit tab                   *)
(* (CommitsPipelineRunTab), the snapshot list (SnapshotPipelineRunsList),  *)
(* the application list view (PipelineRunsListView) and the legacy filter  *)
(* toolbar (PipelineRunsFilterToolbar).                                    *)
(*                                                                         *)
(* Strings whose characters matter (names, search terms, timestamps,       *)
(* error messages) are tuples of characters; opaque strings (labels,       *)
(* component names) are TLA+ strings.  JavaScript's undefined is ""        *)
(* for opaque strings and the empty tuple for character tuples.            *)
(***************************************************************************)
EXTENDS Integers, Sequences, FiniteSets, TLC

\* ------------------------------------------------------------------ bounds

\* Most records a data-access hook delivers before it reports no next page.
MaxRuns == 3

\* Most next-page requests outstanding at once.
MaxInFlight == 2

\* --------------------------------------------------------------- vocabulary

CommitTab == "CommitsPipelineRunTab"
SnapshotList == "SnapshotPipelineRunsList"
ApplicationList == "PipelineRunsListView"
LegacyToolbar == "PipelineRunsFilterToolbar"

ListViews == {CommitTab, SnapshotList, ApplicationList}

Views == ListViews \cup {LegacyToolbar}

\* PipelineRunLabel.PIPELINE_TYPE, the label key the type facet reads.
PIPELINE_TYPE == "pipelines.appstudio.openshift.io/type"

Undefined == ""

Null == "null"

\* useNamespace(): the active namespace.
namespace == "ns"

\* The digits of a timestamp are their values; letters follow the digits, as
\* they do under localeCompare.
UndefinedString == <<30, 23, 13, 14, 15, 18, 23, 14, 13>>

\* PipelineRunKind records the hooks can deliver.  plrPending has neither a
\* pipeline-type label nor a status.startTime (a run that has not started).
plrJan ==
    [name |-> <<"a">>, commit |-> <<"c">>,
     labels |-> (PIPELINE_TYPE :> "build"),
     status |-> "Succeeded", startTime |-> <<0, 1>>]

plrMar ==
    [name |-> <<"b">>, commit |-> <<"d">>,
     labels |-> (PIPELINE_TYPE :> "test"),
     status |-> "Failed", startTime |-> <<0, 3>>]

plrPending ==
    [name |-> <<"a", "b">>, commit |-> <<"c">>,
     labels |-> ("appstudio.openshift.io/application" :> "app"),
     status |-> "Pending", startTime |-> <<>>]

PipelineRunKind == {plrJan, plrMar, plrPending}

\* A second build run, and a run whose metadata carries no labels map
\* (metadata.labels is optional in ObjectMetadata).
plrFeb ==
    [name |-> <<"c">>, commit |-> <<"d">>,
     labels |-> (PIPELINE_TYPE :> "build"),
     status |-> "Running", startTime |-> <<0, 2>>]

plrNoLabels ==
    [name |-> <<"d">>, commit |-> <<"c">>,
     status |-> "Succeeded", startTime |-> <<0, 4>>]

\* The records a dataset handed to a facet's callbacks can hold.
FacetRecords == PipelineRunKind \cup {plrFeb, plrNoLabels}

\* ------------------------------------------------------------ JS primitives

\* obj[key] on a string-keyed map: undefined when the key is missing.
Lookup(map, key) == IF key \in DOMAIN map THEN map[key] ELSE Undefined

Range(s) == {s[i] : i \in DOMAIN s}

\* Array.prototype.includes
Includes(arr, x) == \E i \in DOMAIN arr : arr[i] = x

\* arr[index] with a JavaScript (0-based) index: <<>> stands for undefined,
\* <<x>> for the element x.
At(arr, index) == IF index + 1 \in DOMAIN arr THEN <<arr[index + 1]>> ELSE <<>>

\* !!arr[index] for an array of objects: an object is truthy, undefined is not.
Truthy(slot) == slot # <<>>

\* String.prototype.toLowerCase on one character.
LowerChar(c) == IF c = "A" THEN "a" ELSE IF c = "B" THEN "b" ELSE c

ToLowerCase(s) == [i \in DOMAIN s |-> LowerChar(s[i])]

\* String.prototype.includes: t occurs in s as a substring.
Contains(s, t) ==
    \E k \in 0..(Len(s) - Len(t)) : \A i \in 1..Len(t) : s[k + i] = t[i]

\* String.prototype.localeCompare on timestamps and on the word "undefined":
\* character by character, the shorter string first on a common prefix.
RECURSIVE LocaleCompare(_, _)
LocaleCompare(s, t) ==
    IF s = <<>> /\ t = <<>> THEN 0
    ELSE IF s = <<>> THEN -1
    ELSE IF t = <<>> THEN 1
    ELSE IF Head(s) < Head(t) THEN -1
    ELSE IF Head(s) > Head(t) THEN 1
    ELSE LocaleCompare(Tail(s), Tail(t))


\* All orders of the elements of arr.
Orderings(arr) ==
    {p \in [DOMAIN arr -> Range(arr)] :
        \A x \in Range(arr) :
            Cardinality({i \in DOMAIN arr : p[i] = x})
                = Cardinality({i \in DOMAIN arr : arr[i] = x})}

\* --------------------------------------------------------- URL query state

\* The filter parameters the three list views declare, and one parameter
\* ("sort") that belongs to no filter.
FilterParamKeys == {"name", "commit", "status", "type"}

ParamKeys == FilterParamKeys \cup {"sort"}

\* The value the toolbar (or a link) can give each parameter.
ParamValue(key) ==
    CASE key = "name" -> <<"A">>
      [] key = "commit" -> <<"c">>
      [] key = "status" -> <<"Failed">>
      [] key = "type" -> <<"build">>
      [] OTHER -> <<"x">>

\* new URLSearchParams({}) / setSearchParams({})
EmptyParams == [k \in {} |-> <<>>]

\* URLSearchParams.get(key) || '' (for a text value), the selected values
\* (for a multi-select): empty when the parameter is absent.
ParamGet(params, key) == IF key \in DOMAIN params THEN params[key] ELSE <<>>

\* URLSearchParams.delete(key)
ParamDelete(params, key) == [k \in (DOMAIN params) \ {key} |-> params[k]]

\* URLSearchParams.set(key, value)
ParamSet(params, key, value) ==
    [k \in (DOMAIN params) \cup {key} |-> IF k = key THEN value ELSE params[k]]

\* --------------------------------------------------------------------- state

VARIABLES
    view,                \* the component that is mounted
    customFilter,        \* the customFilter prop: Undefined, or a predicate's name
    applicationLoaded,   \* useApplication(...)[1]
    fetching,            \* the hook's first request is outstanding
    loaded,              \* the hook's loaded flag
    error,               \* the hook's error, NoError when absent
    pipelineRuns,        \* the hook's collection (undefined and [] are both <<>>)
    sortedPipelineRuns,  \* the application list view's memoised sort
    hasNextPage,         \* the hook's hasNextPage
    isFetchingNextPage,  \* the hook's isFetchingNextPage
    inFlight,            \* next-page requests issued and not settled: their cursors
    searchParams,        \* the URL query state
    activeAttribute,     \* the search attribute the text box is bound to
    closure,             \* what loadMoreRows captured at the last render
    lastEvent,           \* the handler that ran last, for the handlers the
                         \* properties are about ("other" for the rest)
    filters,             \* legacy toolbar: the filter state its parent holds
    props                \* legacy toolbar: the filters prop of the last render

hookVars ==
    <<fetching, loaded, error, pipelineRuns, sortedPipelineRuns, hasNextPage,
      isFetchingNextPage, inFlight>>

urlVars == <<searchParams, activeAttribute>>

legacyVars == <<filters, props>>

vars ==
    <<view, customFilter, applicationLoaded, hookVars, urlVars, closure,
      lastEvent, legacyVars>>

\* ------------------------------------------------------- filter configuration

\* A selection that is not an array (a bare string) is carried as the tuple
\* <<NotAnArray, s>>, every array as the tuple of its elements.
NotAnArray == "[not an array]"

\* Array.isArray
IsArray(value) == value = <<>> \/ Head(value) # NotAnArray

\* pipelineRunStatus(plr): the record's derived status label.
pipelineRunStatus(plr) == plr.status

\* filterFn of the status facet.
StatusFilterFn(item, value) ==
    IF ~IsArray(value) \/ Len(value) = 0 THEN TRUE
    ELSE Includes(value, pipelineRunStatus(item))

\* What evaluating an expression gives when it raises a TypeError.
TypeError == "TypeError"

\* metadata.labels is present on the record.
HasLabels(plr) == "labels" \in DOMAIN plr

\* plr?.metadata.labels[PipelineRunLabel.PIPELINE_TYPE] (commit tab, snapshot
\* list): reading a key of an absent labels map raises.
TypeLabelUnguarded(plr) ==
    IF HasLabels(plr) THEN Lookup(plr.labels, PIPELINE_TYPE) ELSE TypeError

\* plr?.metadata?.labels?.[PipelineRunLabel.PIPELINE_TYPE] (application list).
TypeLabelGuarded(plr) ==
    IF HasLabels(plr) THEN Lookup(plr.labels, PIPELINE_TYPE) ELSE Undefined

\* The type label as the type facet of view v reads it.
TypeLabel(v, plr) ==
    IF v = ApplicationList THEN TypeLabelGuarded(plr) ELSE TypeLabelUnguarded(plr)

\* typeMap.set(type, (typeMap.get(type) || 0) + 1) on a Map kept as the
\* sequence of its entries in insertion order.
TypeMapCount(typeMap, type) ==
    IF \E i \in DOMAIN typeMap : typeMap[i].key = type
    THEN [i \in DOMAIN typeMap |->
             IF typeMap[i].key = type
             THEN [key |-> type, count |-> typeMap[i].count + 1]
             ELSE typeMap[i]]
    ELSE Append(typeMap, [key |-> type, count |-> 1])

\* data.forEach(...) of the type facet's getOptions, from the entries counted
\* so far: the Map, or the TypeError the first unreadable record raises.
RECURSIVE TypeMapOf(_, _, _)
TypeMapOf(v, data, typeMap) ==
    IF data = <<>> THEN [threw |-> FALSE, entries |-> typeMap]
    ELSE LET type == TypeLabel(v, Head(data))
         IN  IF type = TypeError THEN [threw |-> TRUE, entries |-> <<>>]
             ELSE IF type # Undefined
                  THEN TypeMapOf(v, Tail(data), TypeMapCount(typeMap, type))
                  ELSE TypeMapOf(v, Tail(data), typeMap)

\* type.charAt(0).toUpperCase() + type.slice(1)
Capitalize(type) ==
    CASE type = "build" -> "Build"
      [] type = "test" -> "Test"
      [] OTHER -> type

\* The option label of view v: the snapshot list shows the value itself.
TypeOptionLabel(v, type) == IF v = SnapshotList THEN type ELSE Capitalize(type)

\* getOptions(data) of the type facet of view v.
TypeGetOptions(v, data) ==
    LET typeMap == TypeMapOf(v, data, <<>>)
    IN  [threw |-> typeMap.threw,
         options |-> [i \in DOMAIN typeMap.entries |->
                         [value |-> typeMap.entries[i].key,
                          label |-> TypeOptionLabel(v, typeMap.entries[i].key),
                          count |-> typeMap.entries[i].count]]]

\* filterFn(item, value) of the type facet of view v: the boolean returned,
\* or the TypeError raised.
TypeFilterFnOf(v, item, value) ==
    IF ~IsArray(value) \/ Len(value) = 0 THEN [threw |-> FALSE, returned |-> TRUE]
    ELSE LET runType == TypeLabel(v, item)
         IN  IF runType = TypeError THEN [threw |-> TRUE, returned |-> FALSE]
             ELSE [threw |-> FALSE, returned |-> Includes(value, runType)]

\* filterFn of the type facet of the mounted view, on the records the hooks
\* deliver.
TypeFilterFn(item, value) == TypeFilterFnOf(view, item, value).returned

\* The three FilterConfig entries each list view declares.
filterConfigs ==
    << [type |-> "search", param |-> "search",
        attributes |-> <<"name", "commit">>, defaultAttribute |-> "name"],
       [type |-> "multiSelect", param |-> "status",
        attributes |-> <<>>, defaultAttribute |-> Undefined],
       [type |-> "multiSelect", param |-> "type",
        attributes |-> <<>>, defaultAttribute |-> Undefined] >>

\* config.filterFn(item, value) of a multiSelect entry.
FilterFn(config, item, value) ==
    IF config.param = "status" THEN StatusFilterFn(item, value)
    ELSE TypeFilterFn(item, value)

\* --------------------------------------------- useFilteredData (generic hook)

\* The query parameters a config reads: one per attribute key of a search
\* config, the single param of a multiSelect config.
ConfigParams(config) ==
    IF config.type = "search" THEN Range(config.attributes) ELSE {config.param}

\* The field of the record that backs a search attribute.
AttributeValue(item, attribute) ==
    IF attribute = "name" THEN item.name ELSE item.commit

\* One config's verdict on one record: a search config matches the active
\* attribute's term case-insensitively as a substring; a multiSelect config
\* asks its filterFn.
ConfigAdmits(config, item, params, active) ==
    IF config.type = "search"
    THEN LET term == ParamGet(params, active)
         IN  term = <<>>
             \/ Contains(ToLowerCase(AttributeValue(item, active)), ToLowerCase(term))
    ELSE FilterFn(config, item, ParamGet(params, config.param))

\* useFilteredData(data, configs).filteredData: the records every config admits.
FilteredData(data, configs, params, active) ==
    LET Admitted(item) ==
            \A i \in DOMAIN configs : ConfigAdmits(configs[i], item, params, active)
    IN  SelectSeq(data, Admitted)

\* useFilteredData(data, configs).isFiltered: some configured parameter holds
\* a non-empty value.
IsFilteredBy(configs, params) ==
    \E i \in DOMAIN configs :
        \E key \in ConfigParams(configs[i]) : ParamGet(params, key) # <<>>

\* ----------------------------------------------------------------- HttpError

NoError == [present |-> FALSE, hasCode |-> FALSE, code |-> 0]

\* The errors a data-access hook can report: with a numeric code, or without.
ErrorValues ==
    {[present |-> TRUE, hasCode |-> TRUE, code |-> 404],
     [present |-> TRUE, hasCode |-> TRUE, code |-> 500],
     [present |-> TRUE, hasCode |-> FALSE, code |-> 0]}

\* A code handed to HttpError.fromCode: a number, or undefined.
CodeOf(n) == [defined |-> TRUE, value |-> n]

UndefinedCode == [defined |-> FALSE, value |-> 0]

\* HttpError.fromCode(code).message: the human-readable message of a code.
\* Some codes have none (the empty string).
HttpErrorMessage(code) ==
    IF code.defined /\ code.value = 404
    THEN <<"N", "o", "t", " ", "F", "o", "u", "n", "d">>
    ELSE <<>>

\* ----------------------------------------------------------- sorting (4.11)

\* The comparator (a, b) => b.status?.startTime?.localeCompare(a.status?.startTime)
\* as sort sees it: undefined (b has no startTime) counts as 0; an absent
\* a.status?.startTime is compared as the string "undefined".
compareFn(a, b) ==
    IF b.startTime = <<>> THEN 0
    ELSE LocaleCompare(b.startTime,
                       IF a.startTime = <<>> THEN UndefinedString ELSE a.startTime)

\* ECMAScript's "consistent comparison function" for a set of values.
IsConsistentComparator(S) ==
    /\ \A a, b \in S : (compareFn(a, b) < 0) <=> (compareFn(b, a) > 0)
    /\ \A a, b \in S : (compareFn(a, b) = 0) <=> (compareFn(b, a) = 0)
    /\ \A a, b, c \in S :
          /\ (compareFn(a, b) = 0 /\ compareFn(b, c) = 0) => compareFn(a, c) = 0
          /\ (compareFn(a, b) < 0 /\ compareFn(b, c) < 0) => compareFn(a, c) < 0
          /\ (compareFn(a, b) = 0 /\ compareFn(b, c) < 0) => compareFn(a, c) < 0
          /\ (compareFn(a, b) < 0 /\ compareFn(b, c) = 0) => compareFn(a, c) < 0

\* The position of the first occurrence of x in arr.
IndexOf(arr, x) == CHOOSE i \in DOMAIN arr : arr[i] = x /\ \A j \in 1..(i - 1) : arr[j] # x

\* What pipelineRuns.toSorted(compareFn) / [...pipelineRuns].sort(compareFn)
\* may return: the stable sort under a consistent comparator, and an
\* implementation-defined order of the same elements otherwise.
SortOutcomes(arr) ==
    IF IsConsistentComparator(Range(arr))
    THEN {p \in Orderings(arr) :
            \A i, j \in DOMAIN p :
                i < j =>
                    /\ compareFn(p[i], p[j]) <= 0
                    /\ compareFn(p[i], p[j]) = 0 => IndexOf(arr, p[i]) <= IndexOf(arr, p[j])}
    ELSE Orderings(arr)

\* -------------------------------------------------- what the list views derive

\* The caller-supplied predicate: the callers keep the runs of one pipeline type.
customFilterFn(plr) == Lookup(plr.labels, PIPELINE_TYPE) = "build"

\* customFilter ? runs.filter(customFilter) : runs
ApplyCustomFilter(runs) ==
    IF customFilter # Undefined THEN SelectSeq(runs, customFilterFn) ELSE runs

\* SnapshotPipelineRunsList.filteredByCustomFilter
filteredByCustomFilter == ApplyCustomFilter(pipelineRuns)

\* PipelineRunsListView.baseFilteredRuns
baseFilteredRuns == ApplyCustomFilter(sortedPipelineRuns)

\* The collection each view gives to useFilteredData.
FilterInput ==
    CASE view = SnapshotList -> filteredByCustomFilter
      [] view = ApplicationList -> baseFilteredRuns
      [] OTHER -> pipelineRuns

\* The filteredData and isFiltered each view gets back from useFilteredData.
filteredPLRs == FilteredData(FilterInput, filterConfigs, searchParams, activeAttribute)

isFiltered == IsFilteredBy(filterConfigs, searchParams)

\* The collection each view passes to the table as unfilteredData.
unfilteredData == IF view = ApplicationList THEN sortedPipelineRuns ELSE pipelineRuns

\* searchParams.get('name') || ''
name == ParamGet(searchParams, "name")

\* CommitsPipelineRunTab: usePLRVulnerabilities(isFiltered ? filteredPLRs : pipelineRuns)
VulnerabilitiesInputCommitTab == IF isFiltered THEN filteredPLRs ELSE pipelineRuns

\* SnapshotPipelineRunsList:
\*   usePLRVulnerabilities(isFiltered ? filteredPLRs : snapshotPipelineRuns)
VulnerabilitiesInputSnapshotList == IF isFiltered THEN filteredPLRs ELSE pipelineRuns

\* An enrichment that is given nothing while no name is searched for.
VulnerabilitiesInputOnlyWhenNamed == IF name # <<>> THEN filteredPLRs ELSE <<>>

\* PipelineRunsListView:
\*   usePLRVulnerabilities(name ? filteredPLRs : sortedPipelineRuns)
VulnerabilitiesInputApplicationList ==
    IF name # <<>> THEN filteredPLRs ELSE sortedPipelineRuns

\* The collection the mounted view passes to usePLRVulnerabilities.
VulnerabilitiesInput ==
    CASE view = SnapshotList -> VulnerabilitiesInputSnapshotList
      [] view = ApplicationList -> VulnerabilitiesInputApplicationList
      [] OTHER -> VulnerabilitiesInputCommitTab

\* The namespace passed without waiting for the application record.
usePipelineRunsNamespaceUngated == namespace

\* The namespace PipelineRunsListView passes to usePipelineRuns.
usePipelineRunsNamespace == IF applicationLoaded THEN namespace ELSE Null

\* The namespace the view's data-access hook is given.
NamespaceArg == IF view = ApplicationList THEN usePipelineRunsNamespace ELSE namespace

\* ---------------------------------------------------------------- error state

SomethingWentWrong ==
    <<"S", "o", "m", "e", "t", "h", "i", "n", "g", " ", "w", "e", "n", "t", " ",
      "w", "r", "o", "n", "g">>

\* The argument of HttpError.fromCode: error ? error.code : 404, evaluated
\* where error is truthy.
FromCodeArg(err) ==
    IF err.present
    THEN (IF err.hasCode THEN CodeOf(err.code) ELSE UndefinedCode)
    ELSE CodeOf(404)

\* HttpError.fromCode(code)
HttpErrorFromCode(code) == [code |-> code, message |-> HttpErrorMessage(code)]

\* The fallback test written >= 0: the empty message is shown as it is.
ErrorBodyNeverFallsBack(httpError) ==
    IF Len(httpError.message) >= 0 THEN httpError.message ELSE SomethingWentWrong

\* CommitsPipelineRunTab: httpError?.message.length > 0 ? message : fallback
ErrorBodyCommitTab(httpError) ==
    IF Len(httpError.message) > 0 THEN httpError.message ELSE SomethingWentWrong

\* PipelineRunsListView: httpError?.message.length ? message : fallback
ErrorBodyApplicationList(httpError) ==
    IF Len(httpError.message) # 0 THEN httpError.message ELSE SomethingWentWrong

\* ------------------------------------------------------------------ rendering

Rendering(component) == [component |-> component, title |-> "", body |-> <<>>]

ErrorEmptyState(title, body) ==
    [component |-> "ErrorEmptyState", title |-> title, body |-> body]

\* The shared Table: a loading indicator until loaded; NoDataEmptyMsg (when
\* the caller gave one) for an empty unfilteredData; EmptyMsg for empty data;
\* the rows otherwise.
Table(data, unfiltered, tableLoaded, EmptyMsg, NoDataEmptyMsg) ==
    IF ~tableLoaded THEN Rendering("LoadingBox")
    ELSE IF NoDataEmptyMsg # Undefined /\ Len(unfiltered) = 0 THEN Rendering(NoDataEmptyMsg)
    ELSE IF Len(data) = 0 THEN Rendering(EmptyMsg)
    ELSE Rendering("Rows")

\* EmptyMsg={isFiltered ? EmptyMsg : NoDataEmptyMsg}
EmptyMsgProp == IF isFiltered THEN "FilteredEmptyState" ELSE "PipelineRunEmptyState"

RenderCommitTab ==
    IF error.present
    THEN ErrorEmptyState("Unable to load pipeline runs",
                         ErrorBodyCommitTab(HttpErrorFromCode(FromCodeArg(error))))
    ELSE IF loaded /\ Len(pipelineRuns) = 0 THEN Rendering("PipelineRunEmptyState")
    ELSE Table(filteredPLRs, pipelineRuns, isFetchingNextPage \/ loaded,
               EmptyMsgProp, "PipelineRunEmptyState")

RenderSnapshotList ==
    IF ~loaded THEN Rendering("Spinner")
    ELSE IF Len(pipelineRuns) = 0 THEN Rendering("PipelineRunEmptyState")
    ELSE Table(filteredPLRs, pipelineRuns, TRUE, EmptyMsgProp, Undefined)

RenderApplicationList ==
    IF error.present
    THEN ErrorEmptyState("Unable to load pipeline runs",
                         ErrorBodyApplicationList(HttpErrorFromCode(FromCodeArg(error))))
    ELSE Table(filteredPLRs, sortedPipelineRuns, isFetchingNextPage \/ loaded,
               EmptyMsgProp, Undefined)

\* What the mounted list view renders in the current state.
Screen ==
    CASE view = CommitTab -> RenderCommitTab
      [] view = SnapshotList -> RenderSnapshotList
      [] view = ApplicationList -> RenderApplicationList
      [] OTHER -> Rendering("Toolbar")

\* Whether the view renders the generic filter toolbar: only on its last
\* return, and there when isFiltered or the collection is not empty.
ToolbarShown ==
    CASE view = CommitTab ->
            /\ ~error.present
            /\ ~(loaded /\ Len(pipelineRuns) = 0)
            /\ (isFiltered \/ Len(pipelineRuns) > 0)
      [] view = SnapshotList ->
            /\ loaded
            /\ Len(pipelineRuns) # 0
            /\ (isFiltered \/ Len(pipelineRuns) > 0)
      [] view = ApplicationList ->
            /\ ~error.present
            /\ (isFiltered \/ Len(sortedPipelineRuns) > 0)
      [] OTHER -> FALSE

\* infiniteLoaderProps.isRowLoaded({index})
isRowLoaded(index) == Truthy(At(filteredPLRs, index))

\* rowCount counted over the fetched collection instead of the filtered one.
rowCountOfFetched == IF hasNextPage THEN Len(pipelineRuns) + 1 ELSE Len(pipelineRuns)

\* infiniteLoaderProps.rowCount
rowCount == IF hasNextPage THEN Len(filteredPLRs) + 1 ELSE Len(filteredPLRs)

\* loadMoreRows without the isFetchingNextPage check.
loadMoreRowsGuardIgnoresFetching(hasNext, isFetchingNext) == hasNext

\* The guard of loadMoreRows over the flags its closure holds.
loadMoreRowsGuard(hasNext, isFetchingNext) == hasNext /\ ~isFetchingNext

\* ------------------------------------------------------- legacy filter state

\* PipelineRunsFilterState with every field at its empty default.
EmptyFilterState == [name |-> <<>>, commit |-> <<>>, status |-> <<>>, type |-> <<>>]

\* clearFilter(state, key): the state with the named field at its empty default.
clearFilter(state, key) == [state EXCEPT ![key] = <<>>]

\* A chip handler that resets every field.
handleClearFilterResetsAll(current, filterKey) == EmptyFilterState

\* handleClearFilter(filterKey): the state it hands to setFilters, computed
\* from the filters prop of the render that made the handler.
handleClearFilter(current, filterKey) == clearFilter(current, filterKey)

\* setValues of the Status multi-select: {...filters, status: newFilters}
SetStatusValues(current, newFilters) == [current EXCEPT !.status = newFilters]

\* setValues of the Type multi-select: {...filters, type: newFilters}
SetTypeValues(current, newFilters) == [current EXCEPT !.type = newFilters]

\* useFilterAttribute's handleTextInput: the typed value goes to the active field.
handleTextInput(current, attribute, value) == [current EXCEPT ![attribute] = value]

\* --------------------------------------------------------- clear-filters (URL)

\* SnapshotPipelineRunsList.handleClearFilters: for a search config delete
\* every attribute key, for any other config delete its param.
RECURSIVE ClearConfigs(_, _)
ClearConfigs(params, configs) ==
    IF configs = <<>> THEN params
    ELSE LET config == Head(configs)
             RECURSIVE DeleteAll(_, _)
             DeleteAll(ps, keys) ==
                 IF keys = <<>> THEN ps
                 ELSE DeleteAll(ParamDelete(ps, Head(keys)), Tail(keys))
             cleared ==
                 IF config.type = "search" /\ config.attributes # <<>>
                 THEN DeleteAll(params, config.attributes)
                 ELSE ParamDelete(params, config.param)
         IN  ClearConfigs(cleared, Tail(configs))

\* A clear that deletes config.param of every config, the search config's
\* attribute keys left in place.
RECURSIVE ClearConfigParamsOnly(_, _)
ClearConfigParamsOnly(params, configs) ==
    IF configs = <<>> THEN params
    ELSE ClearConfigParamsOnly(ParamDelete(params, Head(configs).param), Tail(configs))

SnapshotClearsConfigParamsOnly(params) == ClearConfigParamsOnly(params, filterConfigs)

\* A snapshot-list clear that resets the whole query state, as the other
\* two views' does.
SnapshotClearResetsUrl(params) == EmptyParams

SnapshotHandleClearFilters(params) == ClearConfigs(params, filterConfigs)

\* CommitsPipelineRunTab: onClearFilters={() => setSearchParams({})}
CommitTabClearFilters(params) == EmptyParams

\* PipelineRunsListView.handleClearFilters: setSearchParams({})
ApplicationListHandleClearFilters(params) == EmptyParams

\* The query state the mounted view's clear-filters action commits.
ClearedParams(params) ==
    CASE view = SnapshotList -> SnapshotHandleClearFilters(params)
      [] view = ApplicationList -> ApplicationListHandleClearFilters(params)
      [] OTHER -> CommitTabClearFilters(params)

\* ----------------------------------------------------------------------- Init

AllParams == {[k \in S |-> ParamValue(k)] : S \in SUBSET ParamKeys}

Init ==
    /\ view \in Views
    /\ customFilter \in
           (IF view \in {SnapshotList, ApplicationList}
            THEN {Undefined, "buildOnly"} ELSE {Undefined})
    /\ applicationLoaded = FALSE
    /\ fetching = FALSE
    /\ loaded = FALSE
    /\ error = NoError
    /\ pipelineRuns = <<>>
    /\ sortedPipelineRuns = <<>>
    /\ hasNextPage = FALSE
    /\ isFetchingNextPage = FALSE
    /\ inFlight = <<>>
    /\ searchParams \in (IF view \in ListViews THEN AllParams ELSE {EmptyParams})
    /\ activeAttribute = "name"
    /\ closure = [mounted |-> FALSE, hasNextPage |-> FALSE, isFetchingNextPage |-> FALSE]
    /\ lastEvent = "other"
    /\ filters = EmptyFilterState
    /\ props = EmptyFilterState

\* ------------------------------------------------------ data-access hooks (4.17)

\* The hook's collection changes; the application list view's useMemo sorts it.
SetPipelineRuns(runs) ==
    /\ pipelineRuns' = runs
    /\ sortedPipelineRuns' \in
           (IF view = ApplicationList THEN SortOutcomes(runs) ELSE {<<>>})

\* useApplication reports the application record loaded.
ApplicationLoads ==
    /\ view = ApplicationList
    /\ ~applicationLoaded
    /\ applicationLoaded' = TRUE
    /\ lastEvent' = "other"
    /\ UNCHANGED <<view, customFilter, hookVars, urlVars, closure, legacyVars>>

\* The hook starts its first request: never with a null namespace.
StartFetch ==
    /\ view \in ListViews
    /\ NamespaceArg # Null
    /\ ~fetching /\ ~loaded /\ ~error.present
    /\ fetching' = TRUE
    /\ lastEvent' = "other"
    /\ UNCHANGED <<view, customFilter, applicationLoaded, loaded, error, pipelineRuns,
                   sortedPipelineRuns, hasNextPage, isFetchingNextPage, inFlight,
                   urlVars, closure, legacyVars>>

\* Whether more pages can remain after a collection of the given length.
MayHaveNextPage(len) ==
    IF len > 0 /\ len < MaxRuns /\ len < Cardinality(PipelineRunKind)
    THEN BOOLEAN ELSE {FALSE}

\* The first page arrives: empty, or one record.
FirstPageSettles ==
    /\ fetching
    /\ \E page \in {<<>>} \cup {<<plr>> : plr \in PipelineRunKind} :
          /\ SetPipelineRuns(page)
          /\ hasNextPage' \in MayHaveNextPage(Len(page))
    /\ fetching' = FALSE
    /\ loaded' = TRUE
    /\ lastEvent' = "other"
    /\ UNCHANGED <<view, customFilter, applicationLoaded, error, isFetchingNextPage,
                   inFlight, urlVars, closure, legacyVars>>

\* The first request fails.  The snapshot list's props carry no error.
FetchFails ==
    /\ fetching
    /\ view # SnapshotList
    /\ error' \in ErrorValues
    /\ fetching' = FALSE
    /\ lastEvent' = "other"
    /\ UNCHANGED <<view, customFilter, applicationLoaded, loaded, pipelineRuns,
                   sortedPipelineRuns, hasNextPage, isFetchingNextPage, inFlight,
                   urlVars, closure, legacyVars>>

\* getNextPage(): a request for the page after the records held.
GetNextPage ==
    /\ inFlight' = Append(inFlight, Len(pipelineRuns))
    /\ isFetchingNextPage' = TRUE
    /\ UNCHANGED <<fetching, loaded, error, pipelineRuns, sortedPipelineRuns, hasNextPage>>

\* The oldest next-page request settles: its record is appended, unless the
\* page it asked for has arrived already.
NextPageSettles ==
    /\ inFlight # <<>>
    /\ inFlight' = Tail(inFlight)
    /\ isFetchingNextPage' = (Tail(inFlight) # <<>>)
    /\ IF Head(inFlight) = Len(pipelineRuns)
       THEN \E plr \in PipelineRunKind \ Range(pipelineRuns) :
               /\ SetPipelineRuns(Append(pipelineRuns, plr))
               /\ hasNextPage' \in MayHaveNextPage(Len(pipelineRuns) + 1)
       ELSE UNCHANGED <<pipelineRuns, sortedPipelineRuns, hasNextPage>>
    /\ lastEvent' = "other"
    /\ UNCHANGED <<view, customFilter, applicationLoaded, fetching, loaded, error,
                   urlVars, closure, legacyVars>>

\* The oldest next-page request fails, with a server error.
NextPageFails ==
    /\ inFlight # <<>>
    /\ view # SnapshotList
    /\ ~error.present
    /\ inFlight' = Tail(inFlight)
    /\ isFetchingNextPage' = (Tail(inFlight) # <<>>)
    /\ error' = [present |-> TRUE, hasCode |-> TRUE, code |-> 500]
    /\ lastEvent' = "other"
    /\ UNCHANGED <<view, customFilter, applicationLoaded, fetching, loaded, pipelineRuns,
                   sortedPipelineRuns, hasNextPage, urlVars, closure, legacyVars>>

\* ------------------------------------------------------------ list-view events

\* A render of the mounted list view: the table's infinite loader, when the
\* rows are shown, captures the flags of this render.
Render ==
    /\ view \in ListViews
    /\ closure' =
           IF Screen.component = "Rows"
           THEN [mounted |-> TRUE, hasNextPage |-> hasNextPage,
                 isFetchingNextPage |-> isFetchingNextPage]
           ELSE [mounted |-> FALSE, hasNextPage |-> FALSE, isFetchingNextPage |-> FALSE]
    /\ lastEvent' = "other"
    /\ UNCHANGED <<view, customFilter, applicationLoaded, hookVars, urlVars, legacyVars>>

\* infiniteLoaderProps.loadMoreRows():
\*   hasNextPage && !isFetchingNextPage && getNextPage?.()
LoadMoreRows ==
    /\ view \in ListViews
    /\ closure.mounted
    /\ IF loadMoreRowsGuard(closure.hasNextPage, closure.isFetchingNextPage)
       THEN /\ Len(inFlight) < MaxInFlight
            /\ GetNextPage
       ELSE UNCHANGED hookVars
    /\ lastEvent' = "other"
    /\ UNCHANGED <<view, customFilter, applicationLoaded, urlVars, closure, legacyVars>>

\* The generic toolbar writes one query parameter (a typed term, a selection).
SetSearchParam ==
    /\ view \in ListViews
    /\ ToolbarShown
    /\ \E key \in FilterParamKeys :
          searchParams' = ParamSet(searchParams, key, ParamValue(key))
    /\ lastEvent' = "other"
    /\ UNCHANGED <<view, customFilter, applicationLoaded, hookVars, activeAttribute,
                   closure, legacyVars>>

\* The generic toolbar deletes one chip: its query parameter goes.
DeleteSearchParam ==
    /\ view \in ListViews
    /\ ToolbarShown
    /\ \E key \in FilterParamKeys \cap DOMAIN searchParams :
          searchParams' = ParamDelete(searchParams, key)
    /\ lastEvent' = "other"
    /\ UNCHANGED <<view, customFilter, applicationLoaded, hookVars, activeAttribute,
                   closure, legacyVars>>

\* The attribute selector switches the active search attribute.
SetActiveAttribute ==
    /\ view \in ListViews => ToolbarShown
    /\ activeAttribute' = (IF activeAttribute = "name" THEN "commit" ELSE "name")
    /\ lastEvent' = "other"
    /\ UNCHANGED <<view, customFilter, applicationLoaded, hookVars, searchParams,
                   closure, legacyVars>>

\* The clear-filters action of the filtered-empty state.
ClearFilters ==
    /\ view \in ListViews
    /\ Screen.component = "FilteredEmptyState"
    /\ searchParams' = ClearedParams(searchParams)
    /\ lastEvent' = "clearFilters"
    /\ UNCHANGED <<view, customFilter, applicationLoaded, hookVars, activeAttribute,
                   closure, legacyVars>>

\* --------------------------------------------------------- legacy toolbar events

\* The parent re-renders the toolbar with the state it holds.
LegacyRender ==
    /\ view = LegacyToolbar
    /\ props' = filters
    /\ lastEvent' = "other"
    /\ UNCHANGED <<view, customFilter, applicationLoaded, hookVars, urlVars, closure, filters>>

\* deleteChip / deleteChipGroup of the Name or Commit ToolbarFilter: the chip
\* exists while the rendered value is not ''.
DeleteChip ==
    /\ view = LegacyToolbar
    /\ \E key \in {"name", "commit"} :
          /\ props[key] # <<>>
          /\ filters' = handleClearFilter(props, key)
          /\ lastEvent' = (IF key = "name" THEN "deleteChip:name" ELSE "deleteChip:commit")
    /\ UNCHANGED <<view, customFilter, applicationLoaded, hookVars, urlVars, closure, props>>

\* Typing in the search input.
TextInput ==
    /\ view = LegacyToolbar
    /\ \E value \in {<<"A">>, <<"c">>} :
          filters' = handleTextInput(props, activeAttribute, value)
    /\ lastEvent' = "other"
    /\ UNCHANGED <<view, customFilter, applicationLoaded, hookVars, urlVars, closure, props>>

\* A selection in the Status or the Type multi-select.
SelectValues ==
    /\ view = LegacyToolbar
    /\ \/ \E v \in {<<>>, <<"Failed">>} : filters' = SetStatusValues(props, v)
       \/ \E v \in {<<>>, <<"build">>} : filters' = SetTypeValues(props, v)
    /\ lastEvent' = "other"
    /\ UNCHANGED <<view, customFilter, applicationLoaded, hookVars, urlVars, closure, props>>

Next ==
    \/ ApplicationLoads
    \/ StartFetch
    \/ FirstPageSettles
    \/ FetchFails
    \/ NextPageSettles
    \/ NextPageFails
    \/ Render
    \/ LoadMoreRows
    \/ SetSearchParam
    \/ DeleteSearchParam
    \/ SetActiveAttribute
    \/ ClearFilters
    \/ LegacyRender
    \/ DeleteChip
    \/ TextInput
    \/ SelectValues

Spec == Init /\ [][Next]_vars

\* ------------------------------------------- the type facet on any dataset

\* The selections the type multi-select can write to the URL.
TypeSelections == {<<>>, <<"build">>, <<"test">>, <<"build", "test">>}

\* A list view mounted with its first request settled on an empty collection.
FacetInit ==
    /\ view \in ListViews
    /\ customFilter = Undefined
    /\ applicationLoaded = TRUE
    /\ fetching = FALSE
    /\ loaded = TRUE
    /\ error = NoError
    /\ pipelineRuns = <<>>
    /\ sortedPipelineRuns = <<>>
    /\ hasNextPage = TRUE
    /\ isFetchingNextPage = FALSE
    /\ inFlight = <<>>
    /\ searchParams = EmptyParams
    /\ activeAttribute = "name"
    /\ closure = [mounted |-> FALSE, hasNextPage |-> FALSE, isFetchingNextPage |-> FALSE]
    /\ lastEvent = "other"
    /\ filters = EmptyFilterState
    /\ props = EmptyFilterState

\* The hook delivers one more record, of any shape the cluster can return.
FacetDeliver ==
    /\ Len(pipelineRuns) < MaxRuns
    /\ \E plr \in FacetRecords \ Range(pipelineRuns) :
          SetPipelineRuns(Append(pipelineRuns, plr))
    /\ UNCHANGED <<view, customFilter, applicationLoaded, fetching, loaded, error,
                   hasNextPage, isFetchingNextPage, inFlight, urlVars, closure,
                   lastEvent, legacyVars>>

\* The type multi-select writes its selection to the URL.
FacetSelect ==
    /\ \E value \in TypeSelections :
          searchParams' = IF value = <<>> THEN ParamDelete(searchParams, "type")
                          ELSE ParamSet(searchParams, "type", value)
    /\ UNCHANGED <<view, customFilter, applicationLoaded, hookVars, activeAttribute,
                   closure, lastEvent, legacyVars>>

FacetNext ==
    \/ FacetDeliver
    \/ FacetSelect

FacetSpec == FacetInit /\ [][FacetNext]_vars

\* ----------------------------------------------------------------- properties

\* C1: in each list view, loadMoreRows invokes getNextPage only when the
\* hasNextPage it holds is true and the isFetchingNextPage it holds is false;
\* with any other combination of the two flags no request is issued.
LoadMoreRowsOnlyUnderGuard ==
    [][Len(inFlight') > Len(inFlight)
          => (closure.mounted /\ closure.hasNextPage /\ ~closure.isFetchingNextPage)]_vars

\* C1 witness: getNextPage has been invoked from a mounted table, in a state
\* whose closure held hasNextPage and not isFetchingNextPage.
LoadMoreRowsTriggered ==
    /\ closure.mounted /\ closure.hasNextPage /\ ~closure.isFetchingNextPage
    /\ Len(inFlight) = 1
    /\ isFetchingNextPage

\* C2: at no time are two next-page requests in flight, and no page is
\* requested twice, whatever the interleaving of loadMoreRows calls, renders
\* and page-fetch completions.
AtMostOneNextPageRequest ==
    /\ Len(inFlight) <= 1
    /\ \A i, j \in DOMAIN inFlight : i # j => inFlight[i] # inFlight[j]

\* C3: in each list view the rowCount reported to the table is the filtered
\* length plus one when hasNextPage and the filtered length otherwise, and
\* isRowLoaded(i) holds exactly for the valid indices of the filtered
\* collection.
RowCountConvention ==
    view \in ListViews =>
        LET shown == Len(filteredPLRs)
        IN  /\ hasNextPage => rowCount = shown + 1
            /\ ~hasNextPage => rowCount = shown
            /\ \A i \in (-1)..(Len(pipelineRuns) + 1) :
                  isRowLoaded(i) <=> (0 <= i /\ i < shown)

\* C3 witness: the rows are shown, more pages remain, and the filters have
\* removed some of the fetched records.
RowsShownWithNextPage ==
    /\ Screen.component = "Rows"
    /\ hasNextPage
    /\ isFiltered
    /\ Len(filteredPLRs) < Len(pipelineRuns)

\* C4: in each list view, with no fetch error, loaded = true and zero fetched
\* records the "no pipeline runs" empty state renders whatever the URL's
\* filter parameters; with fetched records of which none remains after the
\* custom predicate and the generic filters, the filtered-empty state renders.
EmptyStateSelection ==
    (view \in ListViews /\ loaded /\ ~error.present) =>
        /\ Len(pipelineRuns) = 0 => Screen.component = "PipelineRunEmptyState"
        /\ (Len(pipelineRuns) > 0 /\ Len(filteredPLRs) = 0)
              => Screen.component = "FilteredEmptyState"

\* C5: in the commit tab and the application list view an error reported by
\* the hook renders the error state titled "Unable to load pipeline runs",
\* whose body is "Something went wrong" when the mapped message is empty and
\* the mapped message otherwise.
ErrorBodyFallback ==
    (view \in {CommitTab, ApplicationList} /\ error.present) =>
        LET message == HttpErrorMessage(FromCodeArg(error))
        IN  /\ Screen.component = "ErrorEmptyState"
            /\ Screen.title = "Unable to load pipeline runs"
            /\ message = <<>> => Screen.body = SomethingWentWrong
            /\ message # <<>> => Screen.body = message

\* C5 witness: an error whose mapped message is empty is on screen with the
\* fallback body.
ErrorShownWithFallback ==
    /\ view \in {CommitTab, ApplicationList}
    /\ error.present
    /\ HttpErrorMessage(FromCodeArg(error)) = <<>>
    /\ Screen.body = SomethingWentWrong

\* C6: in the commit tab and the application list view the code handed to
\* HttpError.fromCode is 404 when the reported error carries no numeric code,
\* and the error's own code otherwise.
FromCodeDefaultsTo404 ==
    (view \in {CommitTab, ApplicationList} /\ error.present) =>
        FromCodeArg(error) = (IF error.hasCode THEN CodeOf(error.code) ELSE CodeOf(404))

\* C7: in the application list view, while applicationLoaded is false the
\* namespace passed to usePipelineRuns is null and no fetch has been started;
\* once applicationLoaded is true the real namespace is passed.
NoFetchBeforeApplicationLoaded ==
    view = ApplicationList =>
        /\ ~applicationLoaded =>
              /\ usePipelineRunsNamespace = Null
              /\ ~fetching /\ ~loaded /\ ~error.present
              /\ pipelineRuns = <<>>
        /\ applicationLoaded => usePipelineRunsNamespace = namespace

\* C7 witness: the application has loaded and the fetch, started after it,
\* has delivered records.
FetchedAfterApplicationLoaded ==
    /\ view = ApplicationList
    /\ applicationLoaded
    /\ loaded
    /\ pipelineRuns # <<>>

\* C8: in each list view, right after the view's clear-filters action
\* isFiltered is false and the filtered output is the collection given to
\* useFilteredData, record for record.
ClearedFiltersAdmitAll ==
    lastEvent = "clearFilters" =>
        /\ ~isFiltered
        /\ filteredPLRs = FilterInput

\* C8 witness: the snapshot list's clear-filters action has run over a
\* non-empty collection, and a parameter of no filter is still in the URL.
SnapshotFiltersCleared ==
    /\ view = SnapshotList
    /\ lastEvent = "clearFilters"
    /\ "sort" \in DOMAIN searchParams
    /\ FilterInput # <<>>

\* C9: in the application list view sortedPipelineRuns is a permutation of
\* the fetched records, and the records that carry a startTime appear most
\* recent first.
SortedByStartTimeDescending ==
    view = ApplicationList =>
        /\ sortedPipelineRuns \in Orderings(pipelineRuns)
        /\ \A i, j \in DOMAIN sortedPipelineRuns :
              (/\ i < j
               /\ sortedPipelineRuns[i].startTime # <<>>
               /\ sortedPipelineRuns[j].startTime # <<>>)
                  => LocaleCompare(sortedPipelineRuns[i].startTime,
                                   sortedPipelineRuns[j].startTime) >= 0

\* C10: in the legacy toolbar, deleting the name chip or the commit chip
\* commits the toolbar's filter state with that field reset to its empty
\* default and the other three fields unchanged; deleting the same chip again
\* commits the same state.
DeleteChipClearsOneField ==
    [][/\ lastEvent' = "deleteChip:name" =>
              /\ filters' = [name |-> <<>>, commit |-> props.commit,
                             status |-> props.status, type |-> props.type]
              /\ lastEvent = "deleteChip:name" => filters' = filters
       /\ lastEvent' = "deleteChip:commit" =>
              /\ filters' = [name |-> props.name, commit |-> <<>>,
                             status |-> props.status, type |-> props.type]
              /\ lastEvent = "deleteChip:commit" => filters' = filters]_vars

\* C10 witness: the name chip has been deleted and the commit text and the
\* status selection are still in the committed state.
NameChipDeleted ==
    /\ lastEvent = "deleteChip:name"
    /\ filters.name = <<>>
    /\ filters.commit # <<>>
    /\ filters.status # <<>>

\* The type values a pipeline-type label can hold.
TypeValues == {"build", "test"}

\* The record carries the type-label value t.
CarriesType(plr, t) ==
    /\ HasLabels(plr)
    /\ PIPELINE_TYPE \in DOMAIN plr.labels
    /\ plr.labels[PIPELINE_TYPE] = t

\* The option list holds one entry per type value present in data and no
\* other entry, each entry's count being the number of records that carry
\* its value.
CountsEachTypeOnce(options, data) ==
    /\ \A i \in DOMAIN options : options[i].value \in TypeValues
    /\ \A t \in TypeValues :
          LET n == Cardinality({i \in DOMAIN data : CarriesType(data[i], t)})
          IN  /\ Cardinality({i \in DOMAIN options : options[i].value = t})
                     = (IF n > 0 THEN 1 ELSE 0)
              /\ \A i \in DOMAIN options : options[i].value = t => options[i].count = n

\* C11: for every dataset of pipeline-run records, the type facet's getOptions
\* of each list view returns exactly one entry per distinct non-empty
\* type-label value present in the dataset, with count equal to the number
\* of records carrying that value.
TypeOptionsCountDistinctValues ==
    view \in ListViews =>
        LET result == TypeGetOptions(view, pipelineRuns)
        IN  /\ ~result.threw
            /\ CountsEachTypeOnce(result.options, pipelineRuns)

\* The same count, on the datasets whose records all carry a labels map.
TypeOptionsCountOnLabelledRecords ==
    (view \in ListViews /\ \A i \in DOMAIN pipelineRuns : HasLabels(pipelineRuns[i])) =>
        LET result == TypeGetOptions(view, pipelineRuns)
        IN  /\ ~result.threw
            /\ CountsEachTypeOnce(result.options, pipelineRuns)

\* The record has no pipeline-type label: no labels map, or no such key in it.
LacksTypeLabel(plr) == \A t \in TypeValues : ~CarriesType(plr, t)

\* The selections a type filterFn can be called with: the arrays the
\* multi-select writes, and a value that is not an array.
FilterFnSelections == TypeSelections \cup {<<NotAnArray, "build">>}

\* C12: in each list view a record without a pipeline-type label (its labels
\* map may be absent) is tolerated: getOptions and filterFn raise no error,
\* the record adds to no entry of the option list, and filterFn returns
\* false for it under every non-empty selection and true under an empty or
\* non-array selection.
RecordsWithoutTypeLabelTolerated ==
    view \in ListViews =>
        LET result == TypeGetOptions(view, pipelineRuns)
        IN  (\E i \in DOMAIN pipelineRuns : LacksTypeLabel(pipelineRuns[i])) =>
                /\ ~result.threw
                /\ CountsEachTypeOnce(result.options, pipelineRuns)
                /\ \A i \in DOMAIN pipelineRuns :
                      LacksTypeLabel(pipelineRuns[i]) =>
                          \A value \in FilterFnSelections :
                              LET call == TypeFilterFnOf(view, pipelineRuns[i], value)
                              IN  /\ ~call.threw
                                  /\ call.returned = (~IsArray(value) \/ value = <<>>)

\* The same tolerance, for the records that have a labels map without the
\* pipeline-type key, and in the application list view for every record.
RecordsWithoutTypeKeyTolerated ==
    view \in ListViews =>
        LET data == IF view = ApplicationList THEN pipelineRuns
                    ELSE SelectSeq(pipelineRuns, HasLabels)
            result == TypeGetOptions(view, data)
        IN  /\ ~result.threw
            /\ CountsEachTypeOnce(result.options, data)
            /\ \A i \in DOMAIN data :
                  LacksTypeLabel(data[i]) =>
                      \A value \in FilterFnSelections :
                          LET call == TypeFilterFnOf(view, data[i], value)
                          IN  /\ ~call.threw
                              /\ call.returned = (~IsArray(value) \/ value = <<>>)

\* Every query state over the parameters of the filters, the search config's
\* own param and a parameter of no filter.
UrlStates ==
    {[k \in S |-> ParamValue(k)] : S \in SUBSET (ParamKeys \cup {"search"})}

\* after is before without the parameters name, commit, status and type,
\* every other parameter kept with its value.
OnlyFilterParamsRemoved(before, after) ==
    /\ DOMAIN after = (DOMAIN before) \ {"name", "commit", "status", "type"}
    /\ \A k \in DOMAIN after : after[k] = before[k]

\* C13: the snapshot list's clear-all action, from any URL query state,
\* removes exactly the parameters of the declared filters (name, commit,
\* status, type) and keeps every other parameter with its value; the clear
\* action of the commit tab and of the application list view leaves the URL
\* query state empty.
ClearAllFrameEffect ==
    [][ lastEvent' = "clearFilters" =>
            /\ IF view = SnapshotList
               THEN OnlyFilterParamsRemoved(searchParams, searchParams')
               ELSE searchParams' = EmptyParams
            /\ \A params \in UrlStates :
                  /\ OnlyFilterParamsRemoved(params, SnapshotHandleClearFilters(params))
                  /\ CommitTabClearFilters(params) = EmptyParams
                  /\ ApplicationListHandleClearFilters(params) = EmptyParams ]_vars

\* C13 witness: the snapshot list's clear-all has run and the URL is left
\* with exactly the parameter that belongs to no filter.
SnapshotClearKeptSort ==
    /\ view = SnapshotList
    /\ lastEvent = "clearFilters"
    /\ DOMAIN searchParams = {"sort"}
    /\ searchParams["sort"] = ParamValue("sort")

\* C14: in every state of each list view, every record the table displays
\* (the filtered collection) is a member of the collection passed to
\* usePLRVulnerabilities, whichever branch selects that collection and with
\* or without a customFilter.
DisplayedRecordsAreEnriched ==
    view \in ListViews => Range(filteredPLRs) \subseteq Range(VulnerabilitiesInput)

\* C14 witness: the application list view shows rows while no name is
\* searched for, a customFilter and a status selection having removed a
\* record from what is shown, so enrichment gets the whole sorted collection.
RowsShownFromSortedCollection ==
    /\ view = ApplicationList
    /\ customFilter # Undefined
    /\ name = <<>>
    /\ isFiltered
    /\ Screen.component = "Rows"
    /\ Len(filteredPLRs) < Len(sortedPipelineRuns)
    /\ VulnerabilitiesInput = sortedPipelineRuns

====
